---- MODULE Spec2Model ----
(***************************************************************************)
(* OdexPatcherAdvanced (src/Odex_Patcher.py): a batch call of              *)
(* process_files, the odex_apk / deodex_apk runs it submits to a thread    *)
(* pool, the scratch directory those runs share, and the archives they     *)
(* read and write.                                                         *)
(*                                                                         *)
(* Strings that the code indexes, concatenates or tests by prefix (file    *)
(* names, archive entry names) are sequences of one-character strings.     *)
(* A path is a record [dir, name]: the directory it lies in and its final  *)
(* component.  An archive is a sequence of entries [name, payload,         *)
(* method].                                                                *)
(***************************************************************************)
EXTENDS Integers, Sequences, FiniteSets, TLC

\* ------------------------------------------------------------------ bounds

\* Longest batch handed to process_files.
MaxFiles == 2

\* Longest source archive (entries) of the single-file specification.
MaxEntries == 3

\* ----------------------------------------------------------------- strings

DexName == <<"c","l","a","s","s","e","s",".","d","e","x">>

OatPrefix == <<"o","a","t","/">>

OatSuffix == <<".","o","a","t">>

VdexSuffix == <<".","v","d","e","x">>

OdexedSuffix == <<"-","o","d","e","x","e","d",".","a","p","k">>

DeodexedSuffix == <<"-","d","e","o","d","e","x","e","d",".","a","p","k">>

ApkSuffix == <<".","a","p","k">>

\* str.startswith
StartsWith(s, p) ==
    /\ Len(s) >= Len(p)
    /\ SubSeq(s, 1, Len(p)) = p

\* str.rfind("."), 1-based; 0 when there is no dot
RFindDot(name) ==
    LET dots == {i \in 1..Len(name) : name[i] = "."}
    IN  IF dots = {} THEN 0 ELSE CHOOSE i \in dots : \A j \in dots : j <= i

\* pathlib's PurePath.stem: the name without its last suffix; a leading or a
\* trailing dot starts no suffix.
Stem(name) ==
    LET i == RFindDot(name)
    IN  IF 1 < i /\ i < Len(name) THEN SubSeq(name, 1, i - 1) ELSE name

\* ------------------------------------------------------------------- paths

CurDir == "."

TmpDirName == "tmp_odex_patcher"

MkPath(d, n) == [dir |-> d, name |-> n]

\* Path(output_dir) if output_dir else None, then "if output_dir is None:
\* output_dir = Path('.')"
None == "None"

\* ---------------------------------------------------------------- archives

Entry(n, p, m) == [name |-> n, payload |-> p, method |-> m]

\* ZipFile.read(name): zipfile keeps one ZipInfo per name, the last one of the
\* central directory, so a read by name yields the payload of the last entry
\* that carries the name.
ZipRead(entries, n) ==
    LET hits == {i \in 1..Len(entries) : entries[i].name = n}
    IN  entries[CHOOSE i \in hits : \A j \in hits : j <= i].payload

\* target_zip.writestr(item, buffer): the source's ZipInfo (name, compression
\* method) with the buffer read by name.
CopiedEntry(entries, i) ==
    Entry(entries[i].name, ZipRead(entries, entries[i].name), entries[i].method)

\* _package_odex: if item.filename != "classes.dex"
KeepOnOdex(n) == n # DexName

\* a strip that keeps the entries under oat/
KeepOnStripNoPrefix(n) == n # DexName

\* deodex_apk: not startswith("oat/") and != "classes.dex"
KeepOnStrip(n) == ~StartsWith(n, OatPrefix) /\ n # DexName

\* source_zip.infolist(): the positions of the entries, in archive order
InfoList(entries) == [i \in 1..Len(entries) |-> i]

\* the copies of the entries at the positions idx, in that order
CopyAt(entries, idx) == [k \in 1..Len(idx) |-> CopiedEntry(entries, idx[k])]

\* _package_odex's loop: for item in source_zip.infolist(): ... writestr
OdexCopy(entries) ==
    CopyAt(entries, SelectSeq(InfoList(entries),
                              LAMBDA i : KeepOnOdex(entries[i].name)))

\* deodex_apk's loop: for item in source_zip.infolist(): ... writestr
StripCopy(entries) ==
    CopyAt(entries, SelectSeq(InfoList(entries),
                              LAMBDA i : KeepOnStrip(entries[i].name)))

\* found_dex of deodex_apk, and "classes.dex" in apk_zip.namelist()
HasDex(entries) == \E i \in 1..Len(entries) : entries[i].name = DexName

\* f"oat/{Path(p).name[0]}/{Path(p).name}"
ArcName(f) == OatPrefix \o <<f[1]>> \o <<"/">> \o f

\* names of the scratch files of a run whose archive has stem s
OatName(s) == s \o OatSuffix

VdexName(s) == s \o VdexSuffix

\* an output written over the source: <stem>.apk
OdexedNameInPlace(s) == s \o ApkSuffix

OdexedName(s) == s \o OdexedSuffix

DeodexedName(s) == s \o DeodexedSuffix

\* ------------------------------------------------------------------- state

VARIABLES
    num_threads,  \* self.num_threads
    file_paths,   \* process_files: the batch, a sequence of paths
    operation,    \* process_files: the operation selector
    output_dir,   \* process_files: the output directory, or None
    disk,         \* archive files on disk: path -> [kind, entries]
    dirs,         \* output directories that exist
    scratch,      \* what lies under self.tmp_dir: name -> [kind, owner, dex, content]
    pf,           \* where process_files is: submit, collect, raising, returned, raised
    i,            \* process_files: index of the next path of the submit loop
    futures,      \* process_files: the submitted runs, in submission order
    results,      \* process_files: the results list
    pc,           \* per run: where the odex_apk / deodex_apk call is
    res,          \* per run: the dict the call returns
    exc,          \* per run: the exception propagating out of the call
    call,         \* number of the process_files call (the demo makes two)
    prev,         \* the previous call: its batch and the results it returned
    completed,    \* history: the runs in the order they completed
    collected,    \* history: the runs in the order their results were appended
    trail,        \* history: per run, the stages invoked and how each ended
    comp,         \* history: per run, what the external compiler did
    interfered    \* history: pairs <<r, q>>, run r touched a scratch path of run q

vars == <<num_threads, file_paths, operation, output_dir, disk, dirs, scratch,
          pf, i, futures, results, pc, res, exc, call, prev, completed,
          collected, trail, comp, interfered>>

Runs == 1..Len(file_paths)

ApkFile(r) == file_paths[r]

StemOf(r) == Stem(file_paths[r].name)

IsFile(p) == p \in DOMAIN disk

\* ----------------------------------------------------------------- results

NoResult == [status |-> "none"]

NoCompile ==
    [launch |-> FALSE, exit |-> 0, oat |-> FALSE, vdex |-> FALSE,
     error |-> "none", result |-> NoResult]

\* A message: the f-string and the paths interpolated into it.
Msg(fmt, refs) == [fmt |-> fmt, refs |-> refs]

\* odex_apk, except (FileNotFoundError, ValueError) as e, and _odex_file's
\* error dicts
ErrorWithApk(msg, apk) ==
    [status |-> "error", message |-> msg, original_apk |-> apk]

\* _package_odex's and deodex_apk's error dicts
ErrorPlain(msg) == [status |-> "error", message |-> msg]

\* process_files' dict for an invalid operation
ErrorWithFile(msg, file) ==
    [status |-> "error", message |-> msg, original_file |-> file]

\* a result dict that lacks its output path
WithOutputDropped(st, msg, out) == [status |-> st, message |-> msg]

WithOutput(st, msg, out) ==
    [status |-> st, message |-> msg, output_path |-> out]

\* Path(output_dir) if output_dir else None; None becomes Path(".")
OutDir == IF output_dir = None THEN CurDir ELSE output_dir

\* ------------------------------------------------------------------ inputs

\* num_threads of the demo's patcher (line 327); the batches are run on one
\* worker and on this many.
NumThreads == 2

Range(f) == {f[x] : x \in DOMAIN f}

EmptyMap == [x \in {} |-> x]

\* a.apk, a.oat.apk, b.apk, all in the current directory
NameA == <<"a">> \o ApkSuffix

NameAOat == <<"a">> \o OatSuffix \o ApkSuffix

NameB == <<"b">> \o ApkSuffix

InputPaths == {MkPath(CurDir, NameA), MkPath(CurDir, NameAOat), MkPath(CurDir, NameB)}

ResName == <<"r">>

OldOatName == OatPrefix \o <<"x">>

ZipOf(entries) == [kind |-> "zip", entries |-> entries]

BadZip == [kind |-> "bad", entries |-> <<>>]

ArchiveWithDex == <<Entry(DexName, "d", "deflated"), Entry(ResName, "p1", "stored")>>

ArchiveNoDex == <<Entry(ResName, "p1", "stored")>>

\* What a path of the batch may hold; a path outside DOMAIN disk does not exist.
Contents == {BadZip, ZipOf(ArchiveWithDex), ZipOf(ArchiveNoDex)}

OutputDirs == {None, "out"}

\* The operation and output directory of the batches: an odex batch differs by
\* its output directory only in the paths of its outputs, which the
\* one-archive specification varies.
BatchCalls ==
    {<<"odex", None>>, <<"deodex", None>>, <<"deodex", "out">>, <<"optimize", None>>}

\* The entries the single-file specification builds its archives from: the
\* primary entry, one name with two payloads and methods, one name under oat/.
SampleEntries ==
    {Entry(DexName, "d", "deflated"), Entry(ResName, "p1", "stored"),
     Entry(ResName, "p2", "deflated"), Entry(OldOatName, "p1", "stored")}

SampleArchives == UNION {[1..n -> SampleEntries] : n \in 1..MaxEntries}

NoCall == [paths |-> <<>>, results |-> <<>>]

\* The state at the start of a process_files call on a fresh patcher:
\* __init__ has created the scratch root, which is empty.
StartCall(paths) ==
    /\ file_paths = paths
    /\ pf = "submit"
    /\ i = 1
    /\ futures = <<>>
    /\ results = <<>>
    /\ pc = [r \in 1..Len(paths) |-> "idle"]
    /\ res = [r \in 1..Len(paths) |-> NoResult]
    /\ exc = [r \in 1..Len(paths) |-> "none"]
    /\ completed = <<>>
    /\ collected = <<>>
    /\ trail = [r \in 1..Len(paths) |-> <<>>]
    /\ comp = [r \in 1..Len(paths) |-> NoCompile]
    /\ interfered = {}

Init ==
    /\ num_threads \in {1, NumThreads}
    /\ \E paths \in UNION {[1..n -> InputPaths] : n \in 1..MaxFiles} :
          /\ StartCall(paths)
          /\ disk \in UNION {[S -> Contents] : S \in SUBSET Range(paths)}
    /\ \E c \in BatchCalls : operation = c[1] /\ output_dir = c[2]
    /\ dirs = {CurDir}
    /\ scratch = EmptyMap
    /\ call = 1
    /\ prev = NoCall

\* ------------------------------------------------ the scratch directory

ScratchDir(r) == [kind |-> "dir", owner |-> r, dex |-> 0, content |-> ""]

ScratchFile(r, c) == [kind |-> "file", owner |-> r, dex |-> 0, content |-> c]

IsDir(sc, n) == n \in DOMAIN sc /\ sc[n].kind = "dir"

IsScratchFile(sc, n) == n \in DOMAIN sc /\ sc[n].kind = "file"

\* output_dir.mkdir(parents=True, exist_ok=True) of _extract_dex
MkDir(sc, n, r) == IF n \in DOMAIN sc THEN sc ELSE (n :> ScratchDir(r)) @@ sc

\* a removal that leaves the tree in place
RmTreeKeeps(sc, n) == sc

\* shutil.rmtree(temp_apk_dir), os.remove(path)
RmTree(sc, n) == [x \in DOMAIN sc \ {n} |-> sc[x]]

\* the external compiler writing an output file: it cannot replace a directory
WriteFile(sc, n, r, c) ==
    IF IsDir(sc, n) THEN sc
    ELSE [x \in DOMAIN sc \cup {n} |-> IF x = n THEN ScratchFile(r, c) ELSE sc[x]]

\* history: run r touches scratch name n; the pairs <<r, q>> where another run
\* q created what lies there or wrote the classes.dex in it
Touch(sc, n, r) ==
    IF n \notin DOMAIN sc THEN {}
    ELSE {<<r, q>> : q \in ({sc[n].owner, sc[n].dex} \ {0, r})}

\* ------------------------------------------------------- the thread pool

Active == {"extract", "compile", "package", "cleanup", "rmtree"}

Finished == {"done", "raised"}

\* ThreadPoolExecutor(max_workers=self.num_threads): a queued run starts when
\* a worker is free, in submission order.
CanStart(r) ==
    /\ pc[r] = "queued"
    /\ Cardinality({q \in Runs : pc[q] \in Active}) < num_threads
    /\ \A q \in Runs : q < r => pc[q] # "queued"

\* ------------------------------------------------------------ odex_apk

\* history: run r's stage ended as ev
Log(r, ev) == [trail EXCEPT ![r] = Append(@, ev)]

\* a run that packages whatever the compile stage reported
AfterCompileAlways(status) == "package"

\* odex_apk line 205: package only when the compile stage reported success
AfterCompile(status) == IF status = "success" THEN "package" ELSE "cleanup"

\* odex_apk lines 203-204: _odex_file runs only when _extract_dex returned
AfterExtract(ok) == IF ok THEN "compile" ELSE "cleanup"

\* The local variables of odex_apk, which locals() lists in the finally block:
\* the parameters and the names assigned in the body.
OdexApkLocals ==
    {"self", "apk_path", "bootclasspath", "output_dir", "apk_file", "dex_path",
     "original_apk", "odex_result", "package_result", "e", "temp_apk_dir"}

\* _extract_dex up to the mkdir of the scratch sub-directory (lines 81-86)
OdexStart(r) ==
    /\ operation = "odex"
    /\ CanStart(r)
    /\ LET apk == ApkFile(r)
           s == StemOf(r)
       IN  IF ~IsFile(apk)
           THEN /\ res' = [res EXCEPT ![r] =
                       ErrorWithApk(Msg("APK file not found: {}", {apk}), apk)]
                /\ pc' = [pc EXCEPT ![r] = AfterExtract(FALSE)]
                /\ trail' = Log(r, "extract:error")
                /\ UNCHANGED <<scratch, exc, interfered>>
           ELSE IF IsScratchFile(scratch, s)
           THEN /\ exc' = [exc EXCEPT ![r] = "FileExistsError"]
                /\ pc' = [pc EXCEPT ![r] = "cleanup"]
                /\ trail' = Log(r, "extract:raise")
                /\ interfered' = interfered \cup Touch(scratch, s, r)
                /\ UNCHANGED <<scratch, res>>
           ELSE /\ scratch' = MkDir(scratch, s, r)
                /\ pc' = [pc EXCEPT ![r] = "extract"]
                /\ interfered' = interfered \cup Touch(scratch, s, r)
                /\ UNCHANGED <<res, exc, trail>>
    /\ UNCHANGED <<num_threads, file_paths, operation, output_dir, disk, dirs, pf, i,
                   futures, results, call, prev, completed, collected, comp>>

\* _extract_dex from the opening of the archive (lines 88-97)
OdexExtract(r) ==
    /\ pc[r] = "extract"
    /\ LET apk == ApkFile(r)
           s == StemOf(r)
           dexPath == MkPath(TmpDirName, s \o <<"/">> \o DexName)
       IN  IF disk[apk].kind = "bad"
           THEN /\ res' = [res EXCEPT ![r] =
                       ErrorWithApk(Msg("Invalid ZIP file: {}", {apk}), apk)]
                /\ pc' = [pc EXCEPT ![r] = AfterExtract(FALSE)]
                /\ trail' = Log(r, "extract:error")
                /\ UNCHANGED <<scratch, exc, interfered>>
           ELSE IF ~HasDex(disk[apk].entries)
           THEN /\ res' = [res EXCEPT ![r] =
                       ErrorWithApk(Msg("classes.dex not found in {}", {apk}), apk)]
                /\ pc' = [pc EXCEPT ![r] = AfterExtract(FALSE)]
                /\ trail' = Log(r, "extract:error")
                /\ UNCHANGED <<scratch, exc, interfered>>
           ELSE IF s \notin DOMAIN scratch
           THEN \* open(dex_output_path, "wb"): the directory is gone
                /\ res' = [res EXCEPT ![r] =
                       ErrorWithApk(Msg("[Errno 2] No such file or directory: {}",
                                        {dexPath}), apk)]
                /\ pc' = [pc EXCEPT ![r] = AfterExtract(FALSE)]
                /\ trail' = Log(r, "extract:error")
                /\ UNCHANGED <<scratch, exc, interfered>>
           ELSE IF IsScratchFile(scratch, s)
           THEN /\ exc' = [exc EXCEPT ![r] = "NotADirectoryError"]
                /\ pc' = [pc EXCEPT ![r] = "cleanup"]
                /\ trail' = Log(r, "extract:raise")
                /\ interfered' = interfered \cup Touch(scratch, s, r)
                /\ UNCHANGED <<scratch, res>>
           ELSE /\ scratch' = [scratch EXCEPT ![s].dex = r]
                /\ pc' = [pc EXCEPT ![r] = AfterExtract(TRUE)]
                /\ trail' = Log(r, "extract:ok")
                /\ interfered' = interfered \cup Touch(scratch, s, r)
                /\ UNCHANGED <<res, exc>>
    /\ UNCHANGED <<num_threads, file_paths, operation, output_dir, disk, dirs, pf, i,
                   futures, results, call, prev, completed, collected, comp>>

\* What subprocess.run(command, check=True) may do (the compiler is opaque):
\* fail to launch it because no such file exists (FileNotFoundError) or
\* because the file cannot be executed (another OSError, such as "Exec format
\* error"), or launch it, and then it exits non-zero, or exits zero having
\* written both output files or the first only.
CompilerOutcomes ==
    {[launch |-> FALSE, exit |-> 1, oat |-> FALSE, vdex |-> FALSE,
      error |-> "FileNotFoundError"],
     [launch |-> FALSE, exit |-> 1, oat |-> FALSE, vdex |-> FALSE,
      error |-> "OSError"],
     [launch |-> TRUE, exit |-> 1, oat |-> FALSE, vdex |-> FALSE, error |-> "none"],
     [launch |-> TRUE, exit |-> 0, oat |-> TRUE, vdex |-> TRUE, error |-> "none"],
     [launch |-> TRUE, exit |-> 0, oat |-> TRUE, vdex |-> FALSE, error |-> "none"]}

\* _odex_file's "status" for an outcome of subprocess.run(..., check=True)
OdexStatus(o) == IF o.launch /\ o.exit = 0 THEN "success" ELSE "error"

\* The dict _odex_file returns (lines 128-146) for an outcome that one of its
\* except clauses handles or that is an exit with status zero.
OdexFileResult(o, apk, s) ==
    IF o.error = "FileNotFoundError"
    THEN ErrorWithApk(Msg("dex2oat not found. Ensure Android SDK path is correct or in PATH.", {}), apk)
    ELSE IF o.exit # 0
    THEN ErrorWithApk(Msg("Error odexing classes.dex: {e.stderr}", {}), apk)
    ELSE [status |-> "success",
          message |-> Msg("Successfully odexed classes.dex", {}),
          oat_path |-> MkPath(TmpDirName, OatName(s)),
          vdex_path |-> MkPath(TmpDirName, VdexName(s)),
          original_apk |-> apk]

\* _odex_file (lines 111-146); an OSError that is no FileNotFoundError passes
\* both except clauses and odex_apk's, and leaves odex_apk after the finally
\* block.
OdexCompile(r) ==
    /\ pc[r] = "compile"
    /\ \E o \in CompilerOutcomes :
         LET apk == ApkFile(r)
             s == StemOf(r)
             sc1 == IF o.oat THEN WriteFile(scratch, OatName(s), r, "oat") ELSE scratch
             sc2 == IF o.vdex THEN WriteFile(sc1, VdexName(s), r, "vdex") ELSE sc1
             raises == o.error = "OSError"
         IN  /\ comp' = [comp EXCEPT ![r] =
                   [launch |-> o.launch, exit |-> o.exit,
                    oat |-> o.oat /\ ~IsDir(scratch, OatName(s)),
                    vdex |-> o.vdex /\ ~IsDir(scratch, VdexName(s)),
                    error |-> o.error,
                    result |-> IF raises THEN NoResult ELSE OdexFileResult(o, apk, s)]]
             /\ trail' = Log(r, IF raises THEN "compile:raise"
                                 ELSE IF OdexStatus(o) = "success" THEN "compile:ok"
                                 ELSE "compile:error")
             /\ exc' = [exc EXCEPT ![r] = IF raises THEN "OSError" ELSE @]
             /\ scratch' = sc2
             /\ interfered' = interfered
                   \cup (IF o.launch THEN Touch(scratch, s, r) ELSE {})
                   \cup (IF o.oat THEN Touch(scratch, OatName(s), r) ELSE {})
                   \cup (IF o.vdex THEN Touch(scratch, VdexName(s), r) ELSE {})
             /\ res' = [res EXCEPT ![r] =
                   IF raises \/ OdexStatus(o) = "success" THEN @
                   ELSE OdexFileResult(o, apk, s)]
             /\ pc' = [pc EXCEPT ![r] =
                   IF raises THEN "cleanup" ELSE AfterCompile(OdexStatus(o))]
    /\ UNCHANGED <<num_threads, file_paths, operation, output_dir, disk, dirs, pf, i,
                   futures, results, call, prev, completed, collected>>

\* target_zip.write(path, arcname) of a scratch file; of a directory, zipfile
\* writes an empty entry named arcname + "/"
ArtifactEntry(sc, n) ==
    IF sc[n].kind = "dir"
    THEN Entry(ArcName(n) \o <<"/">>, "", "stored")
    ELSE Entry(ArcName(n), sc[n].content, "deflated")

\* What _package_odex leaves in the output archive: the copied entries, then
\* the artifacts up to the first one that is missing (the with block closes
\* the target archive on every exit).
PackagedEntries(entries, sc, s) ==
    OdexCopy(entries)
    \o (IF OatName(s) \in DOMAIN sc THEN <<ArtifactEntry(sc, OatName(s))>> ELSE <<>>)
    \o (IF OatName(s) \in DOMAIN sc /\ VdexName(s) \in DOMAIN sc
        THEN <<ArtifactEntry(sc, VdexName(s))>> ELSE <<>>)

\* _package_odex (lines 161-187), called from odex_apk line 206
OdexPackage(r) ==
    /\ pc[r] = "package"
    /\ LET apk == ApkFile(r)
           s == StemOf(r)
           out == MkPath(OutDir, OdexedName(s))
       IN  /\ dirs' = dirs \cup {OutDir}
           /\ interfered' = interfered \cup Touch(scratch, OatName(s), r)
                                       \cup Touch(scratch, VdexName(s), r)
           /\ IF disk[apk].kind = "bad"
              THEN /\ res' = [res EXCEPT ![r] =
                          ErrorPlain(Msg("Error processing ZIP file: {}", {apk}))]
                   /\ trail' = Log(r, "package:error")
                   /\ UNCHANGED disk
              ELSE /\ disk' = (out :> ZipOf(PackagedEntries(disk[apk].entries, scratch, s)))
                                 @@ disk
                   /\ trail' = Log(r, IF {OatName(s), VdexName(s)} \subseteq DOMAIN scratch
                                       THEN "package:ok" ELSE "package:error")
                   /\ res' = [res EXCEPT ![r] =
                          IF OatName(s) \notin DOMAIN scratch
                          THEN ErrorPlain(Msg("Required file not found: {}",
                                              {MkPath(TmpDirName, OatName(s))}))
                          ELSE IF VdexName(s) \notin DOMAIN scratch
                          THEN ErrorPlain(Msg("Required file not found: {}",
                                              {MkPath(TmpDirName, VdexName(s))}))
                          ELSE WithOutput("success",
                                          Msg("Odexed APK created at: {}", {out}), out)]
           /\ pc' = [pc EXCEPT ![r] = "cleanup"]
    /\ UNCHANGED <<num_threads, file_paths, operation, output_dir, scratch, pf, i,
                   futures, results, exc, call, prev, completed, collected, comp>>

\* odex_apk lines 219-222: the artifact files are removed when locals() has
\* the keys "oat_path" and "vdex_path" and the files exist
RemoveArtifacts(sc, s) ==
    LET sc1 == IF "oat_path" \in OdexApkLocals /\ IsScratchFile(sc, OatName(s))
               THEN RmTree(sc, OatName(s)) ELSE sc
    IN  IF "vdex_path" \in OdexApkLocals /\ IsScratchFile(sc1, VdexName(s))
        THEN RmTree(sc1, VdexName(s)) ELSE sc1

\* odex_apk's finally block, lines 216-217: temp_apk_dir.is_dir()
OdexCleanup(r) ==
    /\ pc[r] = "cleanup"
    /\ LET s == StemOf(r)
       IN  IF IsDir(scratch, s)
           THEN /\ pc' = [pc EXCEPT ![r] = "rmtree"]
                /\ UNCHANGED <<scratch, completed>>
           ELSE /\ scratch' = RemoveArtifacts(scratch, s)
                /\ pc' = [pc EXCEPT ![r] = IF exc[r] = "none" THEN "done" ELSE "raised"]
                /\ completed' = Append(completed, r)
    /\ UNCHANGED <<num_threads, file_paths, operation, output_dir, disk, dirs, pf, i,
                   futures, results, res, exc, call, prev, collected, trail, comp,
                   interfered>>

\* odex_apk's finally block, lines 218-222: shutil.rmtree(temp_apk_dir), which
\* raises when the directory is gone, then the removal of the artifact files
OdexRmTree(r) ==
    /\ pc[r] = "rmtree"
    /\ LET s == StemOf(r)
       IN  IF IsDir(scratch, s)
           THEN /\ scratch' = RemoveArtifacts(RmTree(scratch, s), s)
                /\ interfered' = interfered \cup Touch(scratch, s, r)
                /\ pc' = [pc EXCEPT ![r] = IF exc[r] = "none" THEN "done" ELSE "raised"]
                /\ UNCHANGED exc
           ELSE /\ exc' = [exc EXCEPT ![r] = IF s \in DOMAIN scratch
                                              THEN "NotADirectoryError"
                                              ELSE "FileNotFoundError"]
                /\ pc' = [pc EXCEPT ![r] = "raised"]
                /\ UNCHANGED <<scratch, interfered>>
    /\ completed' = Append(completed, r)
    /\ UNCHANGED <<num_threads, file_paths, operation, output_dir, disk, dirs, pf, i,
                   futures, results, res, call, prev, collected, trail, comp>>

\* ---------------------------------------------------------- deodex_apk

\* deodex_apk (lines 240-268).  process_files hands output_dir on as the str
\* it was given, and a str has no mkdir: line 246 raises AttributeError unless
\* output_dir is None.
Deodex(r) ==
    /\ operation = "deodex"
    /\ CanStart(r)
    /\ LET apk == ApkFile(r)
           s == StemOf(r)
           out == MkPath(CurDir, DeodexedName(s))
       IN  IF ~IsFile(apk)
           THEN /\ res' = [res EXCEPT ![r] =
                       ErrorPlain(Msg("APK file not found: {}", {apk}))]
                /\ pc' = [pc EXCEPT ![r] = "done"]
                /\ UNCHANGED <<exc, disk, dirs>>
           ELSE IF output_dir # None
           THEN /\ exc' = [exc EXCEPT ![r] = "AttributeError"]
                /\ pc' = [pc EXCEPT ![r] = "raised"]
                /\ UNCHANGED <<res, disk, dirs>>
           ELSE IF disk[apk].kind = "bad"
           THEN /\ res' = [res EXCEPT ![r] =
                       ErrorPlain(Msg("Invalid ZIP file: {}", {apk}))]
                /\ pc' = [pc EXCEPT ![r] = "done"]
                /\ dirs' = dirs \cup {CurDir}
                /\ UNCHANGED <<exc, disk>>
           ELSE /\ disk' = (out :> ZipOf(StripCopy(disk[apk].entries))) @@ disk
                /\ res' = [res EXCEPT ![r] =
                       IF HasDex(disk[apk].entries)
                       THEN WithOutput("success",
                                Msg("Attempted deodexed APK created at: {} (OAT/VDex removed)",
                                    {out}), out)
                       ELSE WithOutput("warning",
                                Msg("No classes.dex found in {}. Already deodexed?", {apk}),
                                out)]
                /\ pc' = [pc EXCEPT ![r] = "done"]
                /\ dirs' = dirs \cup {CurDir}
                /\ UNCHANGED exc
    /\ completed' = Append(completed, r)
    /\ UNCHANGED <<num_threads, file_paths, operation, output_dir, scratch, pf, i,
                   futures, results, call, prev, collected, trail, comp, interfered>>

\* -------------------------------------------------------- process_files

\* anything is a recognised operation
RecognisedAny(op) == TRUE

\* lines 288 and 290: the selectors for which a run is submitted
Recognised(op) == op \in {"odex", "deodex"}

\* lines 287-293: one iteration of the submit loop
Submit ==
    /\ pf = "submit"
    /\ IF Recognised(operation)
       THEN /\ futures' = Append(futures, i)
            /\ pc' = [pc EXCEPT ![i] = "queued"]
            /\ UNCHANGED results
       ELSE /\ results' = Append(results,
                  ErrorWithFile(Msg("Invalid operation: {operation}", {}), file_paths[i]))
            /\ UNCHANGED <<futures, pc>>
    /\ i' = i + 1
    /\ pf' = IF i = Len(file_paths) THEN "collect" ELSE "submit"
    /\ UNCHANGED <<num_threads, file_paths, operation, output_dir, disk, dirs, scratch,
                   res, exc, call, prev, completed, collected, trail, comp, interfered>>

\* a collect loop that takes the futures as they complete
NextFutureByCompletion ==
    IF Len(results) < Len(completed) THEN completed[Len(results) + 1] ELSE 0

\* lines 295-296, for future in futures: the run whose future the collect
\* loop waits for next, 0 when none is left
NextFuture ==
    IF Len(results) < Len(futures) THEN futures[Len(results) + 1] ELSE 0

\* line 296: results.append(future.result()); result() re-raises what the run
\* raised
Collect ==
    /\ pf = "collect"
    /\ NextFuture # 0
    /\ pc[NextFuture] \in Finished
    /\ IF pc[NextFuture] = "done"
       THEN /\ results' = Append(results, res[NextFuture])
            /\ collected' = Append(collected, NextFuture)
            /\ UNCHANGED pf
       ELSE /\ pf' = "raising"
            /\ UNCHANGED <<results, collected>>
    /\ UNCHANGED <<num_threads, file_paths, operation, output_dir, disk, dirs, scratch,
                   i, futures, pc, res, exc, call, prev, completed, trail, comp,
                   interfered>>

AllFinished == \A r \in Range(futures) : pc[r] \in Finished

\* line 298, after the with block has shut the executor down
Return ==
    /\ pf = "collect"
    /\ Len(results) >= Len(futures)
    /\ AllFinished
    /\ pf' = "returned"
    /\ UNCHANGED <<num_threads, file_paths, operation, output_dir, disk, dirs, scratch,
                   i, futures, results, pc, res, exc, call, prev, completed, collected,
                   trail, comp, interfered>>

\* an exception leaving the with block: the executor waits for every run,
\* then the exception leaves process_files
Raise ==
    /\ pf = "raising"
    /\ AllFinished
    /\ pf' = "raised"
    /\ UNCHANGED <<num_threads, file_paths, operation, output_dir, disk, dirs, scratch,
                   i, futures, results, pc, res, exc, call, prev, completed, collected,
                   trail, comp, interfered>>

\* ------------------------------------------------------- specifications

Next ==
    \/ Submit
    \/ \E r \in Runs : OdexStart(r)
    \/ \E r \in Runs : OdexExtract(r)
    \/ \E r \in Runs : OdexCompile(r)
    \/ \E r \in Runs : OdexPackage(r)
    \/ \E r \in Runs : OdexCleanup(r)
    \/ \E r \in Runs : OdexRmTree(r)
    \/ \E r \in Runs : Deodex(r)
    \/ Collect
    \/ Return
    \/ Raise

Spec == Init /\ [][Next]_vars

\* ------------------------------------------- one archive, odex then strip

\* A batch of one archive built from SampleEntries, on one worker.
InitSingle ==
    /\ num_threads = 1
    /\ \E p \in {MkPath(CurDir, NameA), MkPath(CurDir, NameB)}, a \in SampleArchives :
          /\ StartCall(<<p>>)
          /\ disk = (p :> ZipOf(a))
    /\ operation \in {"odex", "deodex"}
    /\ output_dir \in OutputDirs
    /\ dirs = {CurDir}
    /\ scratch = EmptyMap
    /\ call = 1
    /\ prev = NoCall

\* The demo's second call (lines 345-346): process_files on the paths
\* <output dir>/<stem>-odexed.apk of the odex batch, operation "deodex".
StripOutputs ==
    /\ pf = "returned"
    /\ call = 1
    /\ operation = "odex"
    /\ call' = call + 1
    /\ prev' = [paths |-> file_paths, results |-> results]
    /\ file_paths' = [r \in Runs |-> MkPath(OutDir, OdexedName(StemOf(r)))]
    /\ operation' = "deodex"
    /\ output_dir' \in OutputDirs
    /\ pf' = "submit"
    /\ i' = 1
    /\ futures' = <<>>
    /\ results' = <<>>
    /\ pc' = [r \in Runs |-> "idle"]
    /\ res' = [r \in Runs |-> NoResult]
    /\ exc' = [r \in Runs |-> "none"]
    /\ completed' = <<>>
    /\ collected' = <<>>
    /\ trail' = [r \in Runs |-> <<>>]
    /\ comp' = [r \in Runs |-> NoCompile]
    /\ interfered' = {}
    /\ UNCHANGED <<num_threads, disk, dirs, scratch>>

NextSingle ==
    \/ Next
    \/ StripOutputs

SpecSingle == InitSingle /\ [][NextSingle]_vars

\* ----------------------------------------------------------------- claims

ValidOperation == operation \in {"odex", "deodex"}

UniqueStem(r) == \A q \in Runs : q # r => StemOf(q) # StemOf(r)

DistinctStems == \A r \in Runs : UniqueStem(r)

\* C1: no failure of a file's run is raised out of process_files: the call
\* never ends, nor is about to end, with an exception.
C1_NothingEscapesTheBatch == pf \notin {"raising", "raised"}

\* Both artifact files were written by run r's compiler, which exited zero.
ProducedBoth(r) ==
    comp[r].launch /\ comp[r].exit = 0 /\ comp[r].oat /\ comp[r].vdex

\* C2: when an odex_apk run whose compiler exited zero and wrote
\* <stem>.oat and <stem>.vdex returns, neither file exists.
C2_ArtifactsGoneAtReturn ==
    [][\A r \in Runs :
          (pc[r] \notin Finished /\ pc'[r] \in Finished /\ ProducedBoth(r))
              => (OatName(StemOf(r)) \notin DOMAIN scratch'
                  /\ VdexName(StemOf(r)) \notin DOMAIN scratch')]_vars

\* C3: once an odex_apk run that shares its stem with no other run has
\* returned or raised, the scratch sub-directory <stem> (and with it the
\* classes.dex extracted into it) does not exist, whatever the outcome.
C3_ScratchDirGoneAfterRun ==
    \A r \in Runs :
        (operation = "odex" /\ pc[r] \in Finished /\ UniqueStem(r))
            => ~IsDir(scratch, StemOf(r))

\* C3 witness: a run that extracted, compiled and packaged has returned, the
\* sub-directory it had created removed.
C3_Witness ==
    \E r \in Runs :
        /\ operation = "odex" /\ pc[r] = "done" /\ UniqueStem(r)
        /\ trail[r] = <<"extract:ok", "compile:ok", "package:ok">>
        /\ ~IsDir(scratch, StemOf(r))

\* A result dict refers to path p: under one of its keys or in its message.
Carries(d, p) ==
    \/ "original_apk" \in DOMAIN d /\ d.original_apk = p
    \/ "original_file" \in DOMAIN d /\ d.original_file = p
    \/ p \in d.message.refs

\* C4: every result a run returns refers to the archive path the run was
\* given.
C4_ResultCarriesOrigin ==
    /\ \A r \in Runs : pc[r] = "done" => Carries(res[r], ApkFile(r))
    /\ \A k \in 1..Len(results) :
          Carries(results[k],
                  IF ValidOperation THEN file_paths[collected[k]] ELSE file_paths[k])

\* C5: the compiler is invoked only as the stage right after a successful
\* extraction, the repackager only as the stage right after a successful
\* compile, and a run that stopped at a failed extraction or compile returns
\* an error result.
C5_StagesInOrder ==
    \A r \in Runs :
        /\ \A k \in 1..Len(trail[r]) :
              /\ trail[r][k] \in {"extract:ok", "extract:error", "extract:raise"}
                    => k = 1
              /\ trail[r][k] \in {"compile:ok", "compile:error", "compile:raise"}
                    => (k = 2 /\ trail[r][1] = "extract:ok")
              /\ trail[r][k] \in {"package:ok", "package:error"}
                    => (k = 3 /\ trail[r][2] = "compile:ok")
        /\ (pc[r] = "done" /\ trail[r] # <<>>
               /\ trail[r][Len(trail[r])] \in {"extract:error", "compile:error"})
              => res[r].status = "error"

\* C5 witness: a run whose extraction failed and a run whose compile stage
\* failed have both returned, the one without a compiler invocation, the
\* other without the repackager.
C5_Witness ==
    \E r \in Runs, q \in Runs :
        /\ pc[r] = "done" /\ trail[r] = <<"extract:error">>
        /\ pc[q] = "done" /\ trail[q] = <<"extract:ok", "compile:error">>

\* C6: in a batch of archives with pairwise distinct stems no run touches a
\* scratch path that another run created.
C6_NoInterference == DistinctStems => interfered = {}

Names(entries) == [k \in 1..Len(entries) |-> entries[k].name]

\* Run r of an odex call has returned success: its source and its output.
OdexSucceeded(r) ==
    call = 1 /\ operation = "odex" /\ pc[r] = "done" /\ res[r].status = "success"

SourceOf(r) == disk[ApkFile(r)].entries

OutputOf(r) == disk[res[r].output_path].entries

\* C8: after a successful odex run on an archive with stem b the output
\* archive <b>-odexed.apk has no classes.dex entry, has every other entry of
\* the source, and has the two artifacts at oat/<b[1]>/<b>.oat and
\* oat/<b[1]>/<b>.vdex.
C8_OdexedContents ==
    \A r \in Runs :
        OdexSucceeded(r) =>
            LET b == StemOf(r)
                shard == OatPrefix \o <<b[1]>> \o <<"/">> \o b
            IN  /\ res[r].output_path = MkPath(OutDir, b \o OdexedSuffix)
                /\ DexName \notin Range(Names(OutputOf(r)))
                /\ \A k \in 1..Len(SourceOf(r)) :
                      SourceOf(r)[k].name # DexName
                          => SourceOf(r)[k] \in Range(OutputOf(r))
                /\ \E k \in 1..Len(OutputOf(r)) :
                      OutputOf(r)[k].name = shard \o OatSuffix
                /\ \E k \in 1..Len(OutputOf(r)) :
                      OutputOf(r)[k].name = shard \o VdexSuffix

\* The entries of a source that an operation does not exclude, as they are.
NotExcluded(entries, op) ==
    SelectSeq(entries,
              LAMBDA e : /\ e.name # DexName
                         /\ (op = "deodex" => ~StartsWith(e.name, OatPrefix)))

\* C9: for both operations the entries the output archive takes from the
\* source are the source's not excluded entries, in their order, each with
\* its name, payload and compression method.
C9_EntryFidelity ==
    \A r \in Runs :
        /\ OdexSucceeded(r) =>
              SubSeq(OutputOf(r), 1, Len(OutputOf(r)) - 2)
                  = NotExcluded(SourceOf(r), "odex")
        /\ (operation = "deodex" /\ pc[r] = "done"
               /\ res[r].status \in {"success", "warning"})
              => OutputOf(r) = NotExcluded(SourceOf(r), "deodex")

\* The strip run of the second call has written its output; the first call
\* was a successful odex run on archive A, which has a classes.dex entry.
RoundTripDone ==
    /\ call = 2
    /\ pc[1] = "done"
    /\ res[1].status \in {"success", "warning"}
    /\ prev.results[1].status = "success"

ArchiveA == disk[prev.paths[1]].entries

Odexed == disk[file_paths[1]].entries

Stripped == disk[res[1].output_path].entries

StripOver(r) ==
    /\ operation = "deodex"
    /\ pc[r] \in Finished
    /\ IsFile(ApkFile(r))
    /\ disk[ApkFile(r)].kind = "zip"

NoOatEntries(entries) ==
    \A k \in 1..Len(entries) : ~StartsWith(entries[k].name, OatPrefix)

\* C11: a strip run on a valid archive without classes.dex returns a warning
\* and has written <stem>-deodexed.apk, whose entries are those of the input
\* when the input has no entry under oat/; a strip run returns success
\* exactly when the archive has a classes.dex entry.
C11_StripWarning ==
    \A r \in Runs :
        StripOver(r) =>
            /\ ~HasDex(SourceOf(r)) =>
                  /\ pc[r] = "done"
                  /\ res[r].status = "warning"
                  /\ res[r].output_path.name = DeodexedName(StemOf(r))
                  /\ res[r].output_path \in DOMAIN disk
                  /\ NoOatEntries(SourceOf(r)) => OutputOf(r) = SourceOf(r)
            /\ pc[r] = "done" => (res[r].status = "success" <=> HasDex(SourceOf(r)))

\* ------------------------------------------------------ batch isolation

\* Every path of the batch is a valid archive or does not exist, and the
\* compiler, wherever it ran, exited zero having written both files.
IsolationCase ==
    /\ operation = "odex"
    /\ DistinctStems
    /\ \A q \in Runs : IsFile(ApkFile(q)) => disk[ApkFile(q)].kind = "zip"
    /\ \A q \in Runs : comp[q] = NoCompile \/ ProducedBoth(q)

\* C12: in such an odex batch every run returns the outcome its own path
\* determines: an error reporting the missing source for a path that does not
\* exist, an error reporting the missing classes.dex for an archive without
\* one, success for an archive with one.
C12_OutcomeByPathAlone ==
    IsolationCase =>
        \A r \in Runs :
            pc[r] \in Finished =>
                /\ pc[r] = "done"
                /\ IF ~IsFile(ApkFile(r))
                   THEN /\ res[r].status = "error"
                        /\ res[r].message.fmt = "APK file not found: {}"
                   ELSE IF ~HasDex(SourceOf(r))
                   THEN /\ res[r].status = "error"
                        /\ res[r].message.fmt = "classes.dex not found in {}"
                   ELSE res[r].status = "success"

\* ------------------------------------------------- the output directory

\* Run r was given an existing, valid archive and is over.
ValidRunOver(r) ==
    /\ ValidOperation
    /\ pc[r] \in Finished
    /\ IsFile(ApkFile(r))
    /\ disk[ApkFile(r)].kind = "zip"

\* C13: a strip run on an existing valid archive, and an odex run on one that
\* returns success, returns the output path <output directory>/<stem>-deodexed.apk
\* or <output directory>/<stem>-odexed.apk, the output directory being the
\* given one, which then exists, or the current directory when none is given.
C13_OutputPath ==
    \A r \in Runs :
        ValidRunOver(r) =>
            /\ operation = "deodex" =>
                  /\ pc[r] = "done"
                  /\ res[r].status \in {"success", "warning"}
                  /\ res[r].output_path
                        = MkPath(IF output_dir = None THEN CurDir ELSE output_dir,
                                 StemOf(r) \o DeodexedSuffix)
            /\ (operation = "odex" /\ pc[r] = "done" /\ res[r].status = "success") =>
                  res[r].output_path
                      = MkPath(IF output_dir = None THEN CurDir ELSE output_dir,
                               StemOf(r) \o OdexedSuffix)
            /\ (pc[r] = "done" /\ "output_path" \in DOMAIN res[r]) =>
                  /\ res[r].output_path.dir \in dirs
                  /\ res[r].output_path \in DOMAIN disk

\* ------------------------------------------------ unrecognised operation

\* C14: in a call with an operation other than odex and deodex no run is
\* submitted or started, nothing is written under the scratch directory, the
\* compiler is not invoked, no archive is written beside the batch's own
\* paths, and each path gets, at its position, an error result that names it.
C14_InvalidOperationDoesNothing ==
    ~ValidOperation =>
        /\ futures = <<>>
        /\ \A r \in Runs : pc[r] = "idle" /\ comp[r] = NoCompile /\ trail[r] = <<>>
        /\ scratch = EmptyMap
        /\ DOMAIN disk \subseteq Range(file_paths)
        /\ dirs = {CurDir}
        /\ pf \notin {"raising", "raised"}
        /\ Len(results) = i - 1
        /\ \A k \in 1..Len(results) :
              /\ results[k].status = "error"
              /\ results[k].original_file = file_paths[k]
        /\ pf \in {"collect", "returned"} => Len(results) = Len(file_paths)

\* C14 witness: a call with an unrecognised operation on a batch of several
\* paths, at least one of them an existing archive, has returned.
C14_Witness ==
    /\ ~ValidOperation
    /\ pf = "returned"
    /\ Len(file_paths) > 1
    /\ Len(results) = Len(file_paths)
    /\ \E r \in Runs : IsFile(ApkFile(r))

\* -------------------------------------------------------------- cleanup

\* C15: no step of odex_apk's finally block raises: a run that entered the
\* block without a pending exception leaves it without one, returning the
\* result its stages produced.
C15_CleanupNeverRaises ==
    [][\A r \in Runs :
          (pc[r] \in {"cleanup", "rmtree"} /\ exc[r] = "none")
              => (exc'[r] = "none" /\ pc'[r] # "raised" /\ res'[r] = res[r])]_vars

\* --------------------------------- batches whose paths and outputs overlap

NameAOdexed == OdexedName(<<"a">>)

\* a.apk, the path a-odexed.apk at which the odex run on a.apk writes its
\* output, and an a.apk in another directory
OverlapPaths ==
    {MkPath(CurDir, NameA), MkPath(CurDir, NameAOdexed), MkPath("in", NameA)}

\* A batch over OverlapPaths, all of which exist, for both operations and
\* output directories, on a single worker: the runs of the batch follow one
\* another in submission order.
InitOverlap ==
    /\ num_threads = 1
    /\ \E paths \in UNION {[1..n -> OverlapPaths] : n \in 1..MaxFiles} :
          /\ StartCall(paths)
          /\ disk \in [Range(paths) -> Contents]
    /\ operation \in {"odex", "deodex"}
    /\ output_dir \in OutputDirs
    /\ dirs = {CurDir, "in"}
    /\ scratch = EmptyMap
    /\ call = 1
    /\ prev = NoCall

SpecOverlap == InitOverlap /\ [][Next]_vars

CompileEvents(r) ==
    SelectSeq(trail[r],
              LAMBDA e : e \in {"compile:ok", "compile:error", "compile:raise"})

StderrFormat == "Error odexing classes.dex: {e.stderr}"

\* C17: a run invokes the compiler at most once, and the invocation decides
\* the stage's result: success with the two artifact paths exactly when the
\* compiler was launched and exited zero, the error made of its standard
\* error text when it exited non-zero, an error with another message when it
\* could not be launched.
C17_OneAttemptDecides ==
    \A r \in Runs :
        /\ Len(CompileEvents(r)) <= 1
        /\ Len(CompileEvents(r)) = 1 =>
              LET d == comp[r].result
              IN  /\ d.status \in {"success", "error"}
                  /\ d.status = "success" <=> (comp[r].launch /\ comp[r].exit = 0)
                  /\ d.status = "success" =>
                        /\ d.oat_path = MkPath(TmpDirName, StemOf(r) \o OatSuffix)
                        /\ d.vdex_path = MkPath(TmpDirName, StemOf(r) \o VdexSuffix)
                  /\ (comp[r].launch /\ comp[r].exit # 0) =>
                        d.message.fmt = StderrFormat
                  /\ ~comp[r].launch =>
                        (d.status = "error" /\ d.message.fmt # StderrFormat)

\* ------------------------------------------------- the returned sequence

\* C18: when a call with a recognised operation returns, it returns one result
\* per input path, the k-th being the dict the run on the k-th path returned,
\* whatever the order in which the runs completed; each has a status and a
\* message and, when the status is success, an output path.
C18_OneResultPerPath ==
    (pf = "returned" /\ ValidOperation) =>
        /\ DOMAIN results = DOMAIN file_paths
        /\ \A k \in DOMAIN results :
              /\ pc[k] = "done"
              /\ results[k] = res[k]
              /\ {"status", "message"} \subseteq DOMAIN results[k]
              /\ results[k].status \in {"success", "warning", "error"}
              /\ results[k].status = "success" =>
                    "output_path" \in DOMAIN results[k]

\* C18 witness: a batch of several paths has returned, its last run having
\* completed first, with a success among its results and an error.
C18_Witness ==
    /\ pf = "returned" /\ ValidOperation
    /\ Len(file_paths) > 1
    /\ completed[1] = Len(file_paths)
    /\ \E k \in DOMAIN results : results[k].status = "success"
    /\ \E k \in DOMAIN results : results[k].status = "error"

\* ------------------------------------------------------ shared outputs

DistinctPaths ==
    \A r \in Runs, q \in Runs : r # q => ApkFile(r) # ApkFile(q)

\* Run r has returned a result with an output path.
Wrote(r) == pc[r] = "done" /\ "output_path" \in DOMAIN res[r]

\* C19: in a batch over pairwise distinct paths the output path of a run that
\* has written its output is neither the input path of another run nor the
\* output path another run has written.
C19_NoSharedOutput ==
    DistinctPaths =>
        \A r \in Runs, q \in Runs :
            (r # q /\ Wrote(r)) =>
                /\ res[r].output_path # ApkFile(q)
                /\ Wrote(q) => res[q].output_path # res[r].output_path

\* ------------------------------------------------ output of a failed run

\* C20: when the odex run of a call on one archive has returned an error, no
\* archive lies at its output path <output directory>/<stem>-odexed.apk.
C20_NoOutputOnError ==
    \A r \in Runs :
        (call = 1 /\ operation = "odex" /\ pc[r] = "done"
            /\ res[r].status = "error")
            => MkPath(OutDir, OdexedName(StemOf(r))) \notin DOMAIN disk

====
